---- MODULE Spec2Model ----
(***************************************************************************)
(* Model of src/src/evaluation/llm_evaluation.py:                          *)
(*   - PollingEvaluation (constructor, _check_test_case_types,             *)
(*     polling_evaluation, evaluate_answer_correctness)      : Spec        *)
(*   - TestCaseGenerator (aget_actual_outputs, acreate_test_cases)         *)
(*                                                           : SpecGather  *)
(*   - the judge adapters and _handle_api_key                : SpecAdapter *)
(* Floats are modelled by small integers, a mean by the exact rational     *)
(* <<numerator, denominator>>.                                             *)
(***************************************************************************)
EXTENDS Integers, Sequences, FiniteSets, TLC

VARIABLES
    \* ---- PollingEvaluation ----
    pc,            \* position of the caller's thread in the engine
    ctor_arg,      \* the batch_size handed to __init__
    batch_size,    \* self.batch_size (0 while no instance exists)
    arg_cases,     \* test_cases as passed by the caller
    test_cases,    \* test_cases after _check_test_case_types
    models,        \* the configured judges
    num_batches,
    model_names,
    results_dict,  \* name -> [results, scores, cost_per_batch]
    i,             \* outer loop index (batch)
    j,             \* inner loop index (judge), 1-based
    batch,         \* the current slice
    batches,       \* history: every slice taken at line 402, in order
    started,       \* history: every (batch, judge) evaluation begun
    completed,     \* history: every (batch, judge) evaluation that returned
    ret,           \* the value returned by polling_evaluation
    err,           \* the exception that reached the caller
    \* ---- TestCaseGenerator ----
    gpc, queries, user_messages, pending, finished, responses, gen_cases,
    \* ---- judge adapters ----
    apc, environ, family, given_key, api_key, aerr

pvars == <<pc, ctor_arg, batch_size, arg_cases, test_cases, models,
           num_batches, model_names, results_dict, i, j, batch, batches,
           started, completed, ret, err>>
gvars == <<gpc, queries, user_messages, pending, finished, responses,
           gen_cases>>
avars == <<apc, environ, family, given_key, api_key, aerr>>
vars == <<pvars, gvars, avars>>

----------------------------------------------------------------------------
\* Bounds of the model
MaxBatch == 3
MaxCases == 4
MaxJudges == 2
MaxMsgs == 3

----------------------------------------------------------------------------
\* Helpers

Min(a, b) == IF a < b THEN a ELSE b

RECURSIVE SumSeq(_)
SumSeq(s) == IF s = <<>> THEN 0 ELSE Head(s) + SumSeq(Tail(s))

RECURSIVE Flatten(_)
Flatten(ss) == IF ss = <<>> THEN <<>> ELSE Head(ss) \o Flatten(Tail(ss))

SeqsUpTo(S, n) == UNION {[1..k -> S] : k \in 0..n}

NoErr == [type |-> "none", at |-> "none"]
Error(t, where) == [type |-> t, at |-> where]

----------------------------------------------------------------------------
\* a cost that was not reported (None), lines 227, 257
NoneCost == 0 - 1

\* Test cases as the caller can pass them

RequiredKeys == {"input", "actual_output", "retrieval_context"}

\* fields of deepeval's LLMTestCase; input and actual_output have no default
LLMTestCaseFields ==
    {"input", "actual_output", "expected_output", "context",
     "retrieval_context"}
LLMTestCaseMandatory == {"input", "actual_output"}

ElementShapes ==
    { [kind |-> "LLMTestCase", keys |-> RequiredKeys],
      [kind |-> "dict", keys |-> RequiredKeys],
      [kind |-> "dict", keys |-> {"input", "actual_output"}],
      [kind |-> "dict", keys |-> {"input", "retrieval_context"}],
      [kind |-> "str", keys |-> {}] }

\* the k-th element of a list carries k as its identity
Element(shape, k) == [kind |-> shape.kind, keys |-> shape.keys, id |-> k]

CaseLists ==
    { [k \in DOMAIN shapes |-> Element(shapes[k], k)] :
        shapes \in SeqsUpTo(ElementShapes, MaxCases) }

\* LLMTestCase(**data), line 431: TypeError unless data is a mapping whose
\* keys are fields of LLMTestCase and include the fields without default
LLMTestCaseInitOk(data) ==
    /\ data.kind = "dict"
    /\ LLMTestCaseMandatory \subseteq data.keys
    /\ data.keys \subseteq LLMTestCaseFields

ToLLMTestCase(data) ==
    [kind |-> "LLMTestCase", keys |-> data.keys, id |-> data.id]

\* _check_test_case_types, lines 424-439
_check_test_case_types(tcs) ==
    IF \A k \in DOMAIN tcs : tcs[k].kind = "LLMTestCase"
    THEN [ok |-> TRUE, value |-> tcs]
    ELSE IF tcs[1].kind = "dict"
         THEN IF \A k \in DOMAIN tcs : LLMTestCaseInitOk(tcs[k])
              THEN [ok |-> TRUE,
                    value |-> [k \in DOMAIN tcs |-> ToLLMTestCase(tcs[k])]]
              ELSE [ok |-> FALSE, value |-> <<>>]
         ELSE [ok |-> FALSE, value |-> <<>>]

----------------------------------------------------------------------------
\* Judges: a model name (str) or an adapter exposing .model

JudgeSet ==
    { [kind |-> "str", model |-> "gpt"],
      [kind |-> "adapter", model |-> "gpt"],
      [kind |-> "adapter", model |-> "claude"] }

JudgeLists == SeqsUpTo(JudgeSet, MaxJudges)

\* model if isinstance(model, str) else model.model, lines 352, 394, 404
ModelName(model) == model.model

DistinctNames(ms) ==
    \A a, b \in DOMAIN ms : a # b => ModelName(ms[a]) # ModelName(ms[b])

----------------------------------------------------------------------------
\* PollingEvaluation

\* variant: the batch count rounded down
NumBatchesFloor(n, b) == n \div b

\* ceil(len(test_cases) / self.batch_size), line 392
NumBatches(n, b) == (n + b - 1) \div b

\* test_cases[i * b : (i + 1) * b], line 402 (i is 0-based)
BatchSlice(tcs, ii, b) == SubSeq(tcs, ii * b + 1, Min((ii + 1) * b, Len(tcs)))

\* variant: an accumulator that starts with a placeholder entry
NewAccumulatorSeeded ==
    [results |-> <<[case |-> 0, eval_model |-> "", score |-> 0,
                    cost |-> NoneCost]>>,
     scores |-> <<0>>, cost_per_batch |-> <<>>]

\* the accumulator of one judge, line 398
NewAccumulator == [results |-> <<>>, scores |-> <<>>, cost_per_batch |-> <<>>]

\* AnswerCorrectnessMetric.__init__(self, evaluation_model, threshold=0.8),
\* lines 209-211: the keywords it binds
MetricInitParams == {"evaluation_model", "threshold"}

\* the keywords of the call AnswerCorrectnessMetric(model=..., threshold=...),
\* line 353
MetricCallKeywords == {"model", "threshold"}

\* a call binds iff every keyword names a parameter; otherwise TypeError
MetricInitOk == MetricCallKeywords \subseteq MetricInitParams

ScoreVals == {0, 1}
CostVals == {NoneCost, 0, 2}

\* cost = [r.cost for r in eval_responses if r.cost];
\* cost = sum(cost) if any(cost) else "N/A", lines 367-368
Truthy(c) == c # NoneCost /\ c # 0
BatchCost(costs) ==
    LET kept == SelectSeq(costs, Truthy)
    IN IF kept # <<>> THEN [known |-> TRUE, v |-> SumSeq(kept)]
                      ELSE [known |-> FALSE, v |-> 0]

\* one EvalResponse per test case of the batch, lines 363-365
EvalResponses(b, name, scores, costs) ==
    [k \in DOMAIN b |->
        [case |-> b[k].id, eval_model |-> name,
         score |-> scores[k], cost |-> costs[k]]]

\* a float is the rational <<numerator, denominator>>; nan is 0/0
NaN == <<0, 0>>

NoReturn == [kind |-> "none", mean_scores |-> <<>>, evaluation_score |-> <<0, 1>>]

Init_P ==
    /\ pc = "new"
    /\ ctor_arg = 0
    /\ batch_size = 0
    /\ arg_cases = <<>>
    /\ test_cases = <<>>
    /\ models = <<>>
    /\ num_batches = 0
    /\ model_names = <<>>
    /\ results_dict = <<>>
    /\ i = 0
    /\ j = 0
    /\ batch = <<>>
    /\ batches = <<>>
    /\ started = <<>>
    /\ completed = <<>>
    /\ ret = NoReturn
    /\ err = NoErr

\* the batch sizes a caller may pass to __init__
BatchSizeArgs == (0 - 1)..MaxBatch

\* variant: only batch sizes below 1 are refused
BatchSizeRejectedBelowOne(b) == b < 1

\* if batch_size <= 1: raise ValueError, line 337
BatchSizeRejected(b) == b <= 1

\* PollingEvaluation.__init__, lines 336-339
Construct(b) ==
    /\ pc = "new"
    /\ ctor_arg' = b
    /\ IF BatchSizeRejected(b)
       THEN /\ pc' = "raised"
            /\ err' = Error("ValueError", "__init__")
            /\ UNCHANGED batch_size
       ELSE /\ pc' = "constructed"
            /\ batch_size' = b
            /\ UNCHANGED err
    /\ UNCHANGED <<arg_cases, test_cases, models, num_batches, model_names,
                   results_dict, i, j, batch, batches, started, completed, ret>>
    /\ UNCHANGED <<gvars, avars>>

\* the body of polling_evaluation before the loop, for one pair of arguments
EnterWith(tcs, ms) ==
    /\ arg_cases' = tcs
    /\ models' = ms
    /\ LET checked == _check_test_case_types(tcs)
       IN IF ~checked.ok
          THEN /\ pc' = "raised"
               /\ err' = Error("ValueError", "_check_test_case_types")
               /\ UNCHANGED <<test_cases, num_batches, model_names,
                              results_dict, i>>
          ELSE /\ test_cases' = checked.value
               /\ num_batches' = NumBatches(Len(checked.value), batch_size)
               /\ model_names' = [k \in DOMAIN ms |-> ModelName(ms[k])]
               /\ results_dict' =
                    [name \in {ModelName(ms[k]) : k \in DOMAIN ms} |->
                        NewAccumulator]
               /\ i' = 0
               /\ pc' = "batch_loop"
               /\ UNCHANGED err

\* polling_evaluation, lines 391-400: everything before the batch loop
PollingEvaluationEnter ==
    /\ pc = "constructed"
    /\ \E tcs \in CaseLists, ms \in JudgeLists : EnterWith(tcs, ms)
    /\ UNCHANGED <<ctor_arg, batch_size, j, batch, batches, started,
                   completed, ret>>
    /\ UNCHANGED <<gvars, avars>>

\* for i in range(num_batches): batch = ..., lines 401-402
BatchLoop ==
    /\ pc = "batch_loop"
    /\ IF i < num_batches
       THEN /\ batch' = BatchSlice(test_cases, i, batch_size)
            /\ batches' = Append(batches, batch')
            /\ j' = 1
            /\ pc' = "judge_loop"
       ELSE /\ pc' = "aggregate"
            /\ UNCHANGED <<batch, batches, j>>
    /\ UNCHANGED <<ctor_arg, batch_size, arg_cases, test_cases, models,
                   num_batches, model_names, results_dict, i, started,
                   completed, ret, err>>
    /\ UNCHANGED <<gvars, avars>>

\* variant: the judges taken from the end of the list
IterationOrderReversed(ms) == [k \in DOMAIN ms |-> Len(ms) + 1 - k]

\* for model in tqdm(models, ...), line 403: the j-th iteration takes the j-th
\* judge of the list
IterationOrder(ms) == [k \in DOMAIN ms |-> k]

\* for model in models: ... self.evaluate_answer_correctness(batch, model, ...)
\* lines 403-405: the call is entered, or the inner loop is exhausted
JudgeLoop ==
    /\ pc = "judge_loop"
    /\ IF j <= Len(models)
       THEN /\ started' = Append(started, <<i, IterationOrder(models)[j]>>)
            /\ pc' = "evaluating"
            /\ UNCHANGED i
       ELSE /\ i' = i + 1
            /\ pc' = "batch_loop"
            /\ UNCHANGED started
    /\ UNCHANGED <<ctor_arg, batch_size, arg_cases, test_cases, models,
                   num_batches, model_names, results_dict, j, batch, batches,
                   completed, ret, err>>
    /\ UNCHANGED <<gvars, avars>>

\* variant: the loop catches the exception and goes on with the next judge
EvaluationErrorSwallowed(e) ==
    /\ pc' = "judge_loop"
    /\ j' = j + 1
    /\ UNCHANGED <<results_dict, completed, err>>

\* an exception inside evaluate_answer_correctness: no handler in
\* polling_evaluation (lines 401-411), so it reaches the caller
EvaluationRaises(e) ==
    /\ pc' = "raised"
    /\ err' = e
    /\ UNCHANGED <<results_dict, j, completed>>

\* evaluate_answer_correctness, lines 352-375, and the bookkeeping of its
\* result in polling_evaluation, lines 408-411
EvaluateAnswerCorrectness ==
    /\ pc = "evaluating"
    /\ IF ~MetricInitOk
       THEN EvaluationRaises(Error("TypeError", "evaluate_answer_correctness"))
       ELSE \E scores \in [DOMAIN batch -> ScoreVals],
               costs \in [DOMAIN batch -> CostVals] :
              LET jm   == IterationOrder(models)[j]
                  name == ModelName(models[jm])
                  resp == EvalResponses(batch, name, scores, costs)
                  acc  == results_dict[name]
              IN /\ results_dict' =
                      [results_dict EXCEPT ![name] =
                          [results |-> acc.results \o resp,
                           scores |-> acc.scores \o scores,
                           cost_per_batch |->
                               Append(acc.cost_per_batch, BatchCost(costs))]]
                 /\ completed' = Append(completed, <<i, jm>>)
                 /\ j' = j + 1
                 /\ pc' = "judge_loop"
                 /\ UNCHANGED err
    /\ UNCHANGED <<ctor_arg, batch_size, arg_cases, test_cases, models,
                   num_batches, model_names, i, batch, batches, started, ret>>
    /\ UNCHANGED <<gvars, avars>>

\* round(x, 3) of the rational num/den, in thousandths (ties to even)
Round3(num, den) ==
    LET t == 1000 * num
        f == t \div den
        r == t % den
    IN IF 2 * r > den THEN f + 1
       ELSE IF 2 * r < den THEN f
       ELSE IF f % 2 = 0 THEN f ELSE f + 1

\* np.array(rows); np.mean(axis=0); np.mean; lines 412-422
Aggregate ==
    /\ pc = "aggregate"
    /\ LET rows == [k \in DOMAIN model_names |->
                        results_dict[model_names[k]].scores]
           nj   == Len(rows)
       IN IF nj = 0
          THEN \* np.mean of an empty 1-d array: nan, not a vector
               /\ ret' = [kind |-> "nan", mean_scores |-> <<>>,
                          evaluation_score |-> NaN]
               /\ pc' = "done"
               /\ UNCHANGED err
          ELSE IF \E a, b \in DOMAIN rows : Len(rows[a]) # Len(rows[b])
          THEN \* rows of different lengths do not form a matrix
               /\ pc' = "raised"
               /\ err' = Error("ValueError", "aggregate")
               /\ UNCHANGED ret
          ELSE LET width == Len(rows[1])
                   means == [c \in 1..width |->
                               <<SumSeq([k \in 1..nj |-> rows[k][c]]), nj>>]
                   total == SumSeq([c \in 1..width |-> means[c][1]])
               IN /\ ret' =
                       IF width = 0
                       THEN [kind |-> "vector", mean_scores |-> means,
                             evaluation_score |-> NaN]
                       ELSE [kind |-> "vector", mean_scores |-> means,
                             evaluation_score |->
                                 <<Round3(total, nj * width), 1000>>]
                  /\ pc' = "done"
                  /\ UNCHANGED err
    /\ UNCHANGED <<ctor_arg, batch_size, arg_cases, test_cases, models,
                   num_batches, model_names, results_dict, i, j, batch,
                   batches, started, completed>>
    /\ UNCHANGED <<gvars, avars>>


----------------------------------------------------------------------------
\* TestCaseGenerator

QuerySet == {"q1", "q2"}
ReplySet == {"r1", "r2"}

\* generate_prompt_series(queries[i], rerank), lines 318-321
PromptFor(qs, k) == [query |-> qs[k], context |-> k]

\* variant: the results in the order the calls completed
GatherAsCompleted(fin) == [k \in 1..Len(fin) |-> fin[k][2]]

\* tqdm_asyncio.gather(*tasks), line 302: awaits the tasks as they complete,
\* each tagged with its position, and returns the results by position
Gather(fin) ==
    [k \in 1..Len(fin) |->
        (CHOOSE e \in {fin[n] : n \in DOMAIN fin} : e[1] = k)[2]]

Init_G ==
    /\ gpc = "idle"
    /\ queries = <<>>
    /\ user_messages = <<>>
    /\ pending = {}
    /\ finished = <<>>
    /\ responses = <<>>
    /\ gen_cases = <<>>

\* acreate_test_cases up to the fan-out, lines 315-322 and 292-301: one
\* achat_completion call per user message
AcreateTestCases(qs) ==
    /\ gpc = "idle"
    /\ queries' = qs
    /\ user_messages' = [k \in DOMAIN qs |-> PromptFor(qs, k)]
    /\ pending' = DOMAIN qs
    /\ gpc' = "gathering"
    /\ UNCHANGED <<finished, responses, gen_cases>>
    /\ UNCHANGED <<pvars, avars>>

\* one generation call completes; any pending call may be the next
TaskCompletes(k, text) ==
    /\ gpc = "gathering"
    /\ k \in pending
    /\ pending' = pending \ {k}
    /\ finished' =
         Append(finished, <<k, [call |-> k, to |-> user_messages[k],
                                text |-> text]>>)
    /\ UNCHANGED <<gpc, queries, user_messages, responses, gen_cases>>
    /\ UNCHANGED <<pvars, avars>>

\* one generation call raises: gather re-raises it
TaskRaises(k) ==
    /\ gpc = "gathering"
    /\ k \in pending
    /\ gpc' = "raised"
    /\ UNCHANGED <<queries, user_messages, pending, finished, responses,
                   gen_cases>>
    /\ UNCHANGED <<pvars, avars>>

\* responses = await gather(...); return responses, lines 302-303
GatherReturns ==
    /\ gpc = "gathering"
    /\ pending = {}
    /\ responses' = Gather(finished)
    /\ gpc' = "gathered"
    /\ UNCHANGED <<queries, user_messages, pending, finished, gen_cases>>
    /\ UNCHANGED <<pvars, avars>>

\* zip(queries, actual_outputs, retrieval_contexts), lines 323-332
ZipTestCases ==
    /\ gpc = "gathered"
    /\ gen_cases' =
         [k \in 1..Min(Len(queries), Len(responses)) |->
            [input |-> queries[k], actual_output |-> responses[k],
             retrieval_context |-> k]]
    /\ gpc' = "done"
    /\ UNCHANGED <<queries, user_messages, pending, finished, responses>>
    /\ UNCHANGED <<pvars, avars>>


----------------------------------------------------------------------------
\* Judge adapters

EnvVars == {"COHERE_API_KEY", "ANTHROPIC_API_KEY", "AZURE_OPENAI_ENDPOINT",
            "AZURE_OPENAI_API_KEY"}

Families == {"cohere", "anthropic", "azure"}

\* CustomApiKeyEnum, lines 29-31; for Azure the variable read at lines 126, 131
CredentialVar(fam) ==
    CASE fam = "cohere" -> "COHERE_API_KEY"
      [] fam = "anthropic" -> "ANTHROPIC_API_KEY"
      [] fam = "azure" -> "AZURE_OPENAI_API_KEY"

NoKey == "<None>"
GivenKeys == {NoKey, "", "sk-given"}

\* os.environ[name] of a variable that is set
EnvValue(name) == "env:" \o name

\* _handle_api_key, lines 171-179
_handle_api_key(env_value, key, env) ==
    IF key = NoKey \/ key = ""
    THEN IF env_value \in env
         THEN [ok |-> TRUE, value |-> EnvValue(env_value)]
         ELSE [ok |-> FALSE, value |-> ""]
    ELSE [ok |-> TRUE, value |-> key]

\* what __init__ of each adapter does about the credential:
\* CustomCohere line 42, CustomAnthropic line 75, CustomAzureOpenAI line 120
AdapterInitKey(fam, key, env) ==
    IF fam = "azure"
    THEN [ok |-> TRUE, value |-> NoKey]
    ELSE _handle_api_key(CredentialVar(fam), key, env)

Init_A ==
    /\ apc = "new"
    /\ family = "none"
    /\ given_key = NoKey
    /\ api_key = NoKey
    /\ aerr = NoErr

\* CustomCohere / CustomAnthropic / CustomAzureOpenAI .__init__
AdapterConstruct(fam, key) ==
    /\ apc = "new"
    /\ fam = "azure" => key = NoKey  \* CustomAzureOpenAI takes no api_key
    /\ family' = fam
    /\ given_key' = key
    /\ LET r == AdapterInitKey(fam, key, environ)
       IN IF r.ok
          THEN /\ api_key' = r.value
               /\ apc' = "constructed"
               /\ UNCHANGED aerr
          ELSE /\ apc' = "raised"
               /\ aerr' = Error("ValueError", "__init__")
               /\ UNCHANGED api_key
    /\ UNCHANGED environ
    /\ UNCHANGED <<pvars, gvars>>

\* load_model, the first step of generate and a_generate:
\* lines 44-47, 77-80, 122-133
AdapterLoadModel ==
    /\ apc = "constructed"
    /\ IF family # "azure"
       THEN /\ apc' = "loaded"
            /\ UNCHANGED <<aerr, api_key>>
       ELSE IF "AZURE_OPENAI_ENDPOINT" \notin environ
       THEN \* os.environ["AZURE_OPENAI_ENDPOINT"]
            /\ apc' = "raised"
            /\ aerr' = Error("KeyError", "load_model")
            /\ UNCHANGED api_key
       ELSE IF "AZURE_OPENAI_API_KEY" \in environ
       THEN /\ apc' = "loaded"
            /\ api_key' = EnvValue("AZURE_OPENAI_API_KEY")
            /\ UNCHANGED aerr
       ELSE \* os.getenv gives None: the client is built without a key, and
            \* the openai client accepts or refuses that depending on the
            \* other credentials it finds
            \/ /\ apc' = "loaded"
               /\ UNCHANGED <<aerr, api_key>>
            \/ /\ apc' = "raised"
               /\ aerr' = Error("OpenAIError", "load_model")
               /\ UNCHANGED api_key
    /\ UNCHANGED <<environ, family, given_key>>
    /\ UNCHANGED <<pvars, gvars>>


----------------------------------------------------------------------------
\* Specifications: one per component, the other components idle

Init == Init_P /\ Init_G /\ Init_A /\ environ = {}
Next ==
    \/ \E b \in BatchSizeArgs : Construct(b)
    \/ PollingEvaluationEnter
    \/ BatchLoop
    \/ JudgeLoop
    \/ EvaluateAnswerCorrectness
    \/ Aggregate
Spec == Init /\ [][Next]_vars

InitGather == Init_P /\ Init_G /\ Init_A /\ environ = {}
NextGather ==
    \/ \E qs \in SeqsUpTo(QuerySet, MaxMsgs) : AcreateTestCases(qs)
    \/ \E k \in 1..MaxMsgs, text \in ReplySet : TaskCompletes(k, text)
    \/ \E k \in 1..MaxMsgs : TaskRaises(k)
    \/ GatherReturns
    \/ ZipTestCases
SpecGather == InitGather /\ [][NextGather]_vars

InitAdapter == Init_P /\ Init_G /\ Init_A /\ environ \in SUBSET EnvVars
NextAdapter ==
    \/ \E fam \in Families, key \in GivenKeys : AdapterConstruct(fam, key)
    \/ AdapterLoadModel
SpecAdapter == InitAdapter /\ [][NextAdapter]_vars

----------------------------------------------------------------------------
\* Properties

Range(f) == {f[x] : x \in DOMAIN f}

\* the least k with k * b >= n
CeilDiv(n, b) == CHOOSE k \in 0..n : k * b >= n /\ (k = 0 \/ (k - 1) * b < n)

LoopFinished ==
    \/ pc \in {"aggregate", "done"}
    \/ pc = "raised" /\ err.at = "aggregate"

CallMade ==
    /\ pc \notin {"new", "constructed"}
    /\ ~(pc = "raised" /\ err.at = "__init__")

Rejected == pc = "raised" /\ err.at = "_check_test_case_types"

EvaluationFailed == pc = "raised" /\ err.at = "evaluate_answer_correctness"

\* The call of line 353 never binds to __init__ of lines 209-211, so no
\* (batch, judge) evaluation ever returns: aggregation is reached only by
\* runs without test cases or without judges.
EvaluationNeverReturns == completed = <<>>

C2_MeanVector ==
    (CallMade /\ ~Rejected /\ models # <<>> /\ pc \in {"done", "raised"}) =>
        /\ pc = "done"
        /\ ret.kind = "vector"
        /\ Len(ret.mean_scores) = Len(arg_cases)
        /\ \A c \in DOMAIN arg_cases :
              ret.mean_scores[c] =
                  <<SumSeq([k \in DOMAIN models |->
                        results_dict[ModelName(models[k])].scores[c]]),
                    Len(models)>>

\* C3: the batches taken are consecutive, non-overlapping slices that in
\* order reproduce the input list; each is non-empty and of size at most b,
\* and of size exactly b unless it is the last one; once the loop is over
\* there are exactly ceil(n / b) of them and their sizes sum to n.
C3_Partition ==
    CallMade /\ ~Rejected =>
        LET n == Len(test_cases)
            flat == Flatten(batches)
        IN /\ Len(flat) <= n
           /\ flat = SubSeq(test_cases, 1, Len(flat))
           /\ \A k \in DOMAIN batches :
                 /\ Len(batches[k]) >= 1
                 /\ Len(batches[k]) <= batch_size
                 /\ Len(batches[k]) = batch_size
                       \/ (k = Len(batches) /\ flat = test_cases)
           /\ LoopFinished =>
                 /\ Len(batches) = CeilDiv(n, batch_size)
                 /\ flat = test_cases
                 /\ SumSeq([k \in DOMAIN batches |-> Len(batches[k])]) = n

C3_Witness ==
    /\ pc = "aggregate"
    /\ Len(batches) >= 2
    /\ Len(batches[Len(batches)]) < batch_size

\* C4: an evaluation that was started and did not return its results is
\* either still running or is the last one ever started, its error has
\* reached the caller and nothing is returned: no retry, no later judge, no
\* later batch, no aggregate or partial result.
C4_ErrorAborts ==
    /\ \A k \in DOMAIN started :
          started[k] \notin Range(completed) =>
              /\ k = Len(started)
              /\ pc = "evaluating" \/ (EvaluationFailed /\ err.type # "none")
    /\ \A a, b \in DOMAIN started : a # b => started[a] # started[b]
    /\ pc = "raised" => ret = NoReturn

C4_Witness ==
    /\ EvaluationFailed
    /\ started # <<>>
    /\ started[Len(started)] \notin Range(completed)
    /\ Len(test_cases) >= 2

\* C5: at the end of a run every judge has a total cost: the sum of its batch
\* costs if every batch reported a number, the "unknown" sentinel if no batch
\* reported one.
C5_TotalCost ==
    pc = "done" =>
        \A name \in DOMAIN results_dict :
            LET acc == results_dict[name]
                per == acc.cost_per_batch
            IN /\ "cost" \in DOMAIN acc
               /\ (\A k \in DOMAIN per : per[k].known) /\ per # <<>> =>
                     acc.cost = [known |-> TRUE,
                                 v |-> SumSeq([k \in DOMAIN per |-> per[k].v])]
               /\ (\A k \in DOMAIN per : ~per[k].known) =>
                     acc.cost = [known |-> FALSE, v |-> 0]

AllStructured(tcs) == \A k \in DOMAIN tcs : tcs[k].kind = "LLMTestCase"
AllFullMappings(tcs) ==
    \A k \in DOMAIN tcs :
        tcs[k].kind = "dict" /\ RequiredKeys \subseteq tcs[k].keys

\* C6: a test-case list is accepted only if it is a list of structured
\* inputs or a list of mappings that carry input, actual_output and
\* retrieval_context; every other list is rejected with the validation error
\* before any judge evaluation is started.
C6_Validation ==
    CallMade =>
        /\ ~Rejected => AllStructured(arg_cases) \/ AllFullMappings(arg_cases)
        /\ Rejected => err.type = "ValueError" /\ started = <<>>

\* C7: all generation calls are issued before any result is awaited, and the
\* sequence returned has the length of the input and holds at position k the
\* response to the k-th user message, whatever the completion order.
C7_InputOrder ==
    /\ gpc = "gathering" =>
          pending \cup {finished[n][1] : n \in DOMAIN finished}
              = DOMAIN user_messages
    /\ gpc \in {"gathered", "done"} =>
          /\ Len(responses) = Len(user_messages)
          /\ \A k \in DOMAIN user_messages :
                /\ responses[k].call = k
                /\ responses[k].to = user_messages[k]

C7_Witness ==
    /\ gpc = "gathered"
    /\ Len(finished) >= 2
    /\ finished[1][1] > finished[2][1]

C9_BatchSizeAtConstruction ==
    pc # "new" =>
        /\ ctor_arg <= 1 =>
              /\ pc = "raised"
              /\ err = Error("ValueError", "__init__")
              /\ batch_size = 0
        /\ CallMade \/ pc = "constructed" => batch_size > 1

C9_Witness ==
    /\ pc = "raised"
    /\ err.at = "__init__"
    /\ ctor_arg = 1

\* C10: an adapter of any backend family constructed without an explicit key
\* has read the credential from the family's environment variable in its
\* constructor; when the variable is absent the constructor raises, and no
\* configuration error is left for load_model / generate / a_generate.
C10_FailFast ==
    /\ (apc \in {"constructed", "loaded"} /\ given_key = NoKey) =>
          /\ CredentialVar(family) \in environ
          /\ api_key = EnvValue(CredentialVar(family))
    /\ apc = "raised" => aerr.at = "__init__"

====
